---- MODULE Spec2Model ----
(***************************************************************************)
(* Model of src/app.py: the process-wide RateLimitHandler (pacer),         *)
(* safe_api_call (retry coordinator) and create_multi_story_app            *)
(* (orchestrator).                                                         *)
(*                                                                         *)
(* Time is counted in ticks of 0.1 second, the resolution of the jitter    *)
(* bounds of the source (0.1, 1.0, 2.0), so min_delay = 2 s is 20 ticks.   *)
(* Progress fractions are counted in tenths (0.1 is 1, 1.0 is 10).         *)
(***************************************************************************)
EXTENDS Integers, Sequences, FiniteSets

(* ---- program constants (RateLimitHandler.__init__), in ticks ---------- *)
min_delay == 20
max_delay == 300
base_delay == 50
max_retries == 3

(* random.uniform(0.1, 1.0) of wait, random.uniform(0.1, 2.0) of           *)
(* handle_rate_limit, in ticks                                             *)
WaitJitterMin == 1
WaitJitterMax == 10
BackoffJitterMin == 1
BackoffJitterMax == 20

(* ---- bounds of the model ---------------------------------------------- *)
(* entries of the mapping the prompt call can return *)
MaxPairs == 4
(* the same, in the runs that follow every timing (SpecTimed) *)
TimedPairs == 1
(* failing remote attempts in one run *)
MaxFaults == 3
(* the same, in the runs that follow every timing (SpecTimed) *)
TimedFaults == 2
(* ticks a sleep may last beyond the requested duration *)
MaxOversleep == 1
(* ticks a slow remote call takes; a fast one takes none *)
SlowCall == 24
(* reading of time.time() when the run starts *)
StartTime == 100

VARIABLES
    pc,                 \* position of the single thread of control
    now,                \* time.time()
    last_request_time,  \* rate_limiter.last_request_time
    attempt,            \* loop variable of safe_api_call
    kind,               \* operation wrapped by the running safe_api_call
    i,                  \* loop index of create_multi_story_app (1-based)
    story_prompts,      \* number of entries of the parsed mapping
    image_url,          \* pair whose image the last generate_image returned
    retval,             \* value returned by the last successful operation
    exc,                \* exception being propagated
    results,            \* the list under construction / returned
    delays,             \* delays computed by handle_rate_limit in this safe_api_call
    slept,              \* whether the last wait() suspended the caller
    trace               \* observable events of the run, in order

vars == <<pc, now, last_request_time, attempt, kind, i, story_prompts,
          image_url, retval, exc, results, delays, slept, trace>>

(* ---- values ------------------------------------------------------------ *)
NoExc == [type |-> "None", has429 |-> FALSE]
ThrottlingError == [type |-> "ThrottlingError", has429 |-> TRUE]
RemoteError == [type |-> "RemoteError", has429 |-> FALSE]
MaxRetriesExceeded == [type |-> "MaxRetriesExceeded", has429 |-> FALSE]
AttributeError == [type |-> "AttributeError", has429 |-> FALSE]
MalformedResponseError(has) == [type |-> "MalformedResponseError", has429 |-> has]

NoValue == [ok |-> TRUE, mapping |-> FALSE, value |-> 0, err |-> NoExc]
Value(v) == [ok |-> TRUE, mapping |-> TRUE, value |-> v, err |-> NoExc]
Raises(e) == [ok |-> FALSE, mapping |-> FALSE, value |-> 0, err |-> e]

Min2(a, b) == IF a < b THEN a ELSE b

RECURSIVE Pow2(_)
Pow2(n) == IF n = 0 THEN 1 ELSE 2 * Pow2(n - 1)

(* ---- RateLimitHandler -------------------------------------------------- *)
(* a sign slip in the jitter term of line 25 *)
PacerSleepJitterSubtracted(elapsed, jitter) == min_delay - elapsed - jitter

(* line 25: the duration handed to time.sleep by wait() *)
PacerSleep(elapsed, jitter) == min_delay - elapsed + jitter

(* line 27 storing the reading of line 21 instead of reading the clock again *)
StampBeforeSleep(current_time, woke) == current_time

(* line 27: the value stored in last_request_time, time.time() read after   *)
(* the sleep                                                                *)
Stamp(current_time, woke) == woke

(* line 24: whether wait() suspends the caller *)
MustSleep(elapsed) == elapsed < min_delay

(* lines 33-34 without the exponential term: the jitter alone *)
BackoffDelayJitterOnly(a, jitter) == jitter

(* line 33 without its exponential growth *)
BackoffDelayFlat(a, jitter) == Min2(base_delay, max_delay) + jitter

(* the exponent of line 33 off by one *)
BackoffDelayShifted(a, jitter) == Min2(base_delay * Pow2(a + 1), max_delay) + jitter

(* lines 33-34: the delay of handle_rate_limit *)
BackoffDelay(a, jitter) == Min2(base_delay * Pow2(a), max_delay) + jitter

(* line 53 with the bound on the attempt off by one *)
ShouldRetryOffByOne(e, a) == e.has429 /\ a < max_retries

(* line 53 without its bound on the attempt *)
ShouldRetryUnbounded(e, a) == e.has429

(* line 53 without its test of the error *)
ShouldRetryAnyError(e, a) == a < max_retries - 1

(* line 53: the retry condition of safe_api_call; "429" in str(e) *)
ShouldRetry(e, a) == e.has429 /\ a < max_retries - 1

(* lines 52-56 backing off after every throttling failure, the last too *)
AfterAttemptAlwaysBacksOff(r, a) ==
    IF r.ok THEN "returned"
    ELSE IF r.err.has429 THEN "backoff" ELSE "raised"

(* line 51 without its return: the loop goes on after a success *)
AfterAttemptNoReturn(r, a) ==
    IF r.ok /\ a = max_retries - 1 THEN "returned"
    ELSE IF r.ok \/ ShouldRetry(r.err, a) THEN "backoff" ELSE "raised"

(* lines 51-56: where safe_api_call goes after the operation returned or    *)
(* raised on attempt a                                                      *)
AfterAttempt(r, a) ==
    IF r.ok THEN "returned"
    ELSE IF ShouldRetry(r.err, a) THEN "backoff" ELSE "raised"

(* the loop of line 48 rewritten without advancing attempt *)
NextAttemptStuck(a) == a

(* line 48: the value range(max_retries) gives after a *)
NextAttempt(a) == a + 1

(* rate_limiter.wait() called once, before the loop, instead of in it *)
RetryTargetSkipsPacer == "invoke"

(* lines 48-50, 55: continue re-enters the loop body, which starts with     *)
(* rate_limiter.wait()                                                      *)
RetryTarget == "wait"

(* ---- the remote operations (make_request of the three kinds) ----------- *)
Outcomes(k, N) ==
    IF k = "prompt"
    THEN {Value(n) : n \in 0..N} \cup {NoValue}
         \cup {Raises(ThrottlingError), Raises(RemoteError)}
         \cup {Raises(MalformedResponseError(h)) : h \in BOOLEAN}
    ELSE {Value(i)} \cup {Raises(ThrottlingError), Raises(RemoteError)}

OpTimes == {0, SlowCall}
Oversleeps == 0..MaxOversleep

(* the draws of random.uniform the model follows: the two ends of each      *)
(* range; every duration below is linear in the draw                        *)
WaitJitters == {WaitJitterMin, WaitJitterMax}
BackoffJitters == {BackoffJitterMin, BackoffJitterMax}

(* ---- the events of a run: st.warning, st.error, progress_bar.progress,   *)
(* the sleeps, the admissions of wait() and the remote calls ---------------- *)
Event(e, k, p, a) ==
    [ev |-> e, kind |-> k, pair |-> p, attempt |-> a, err |-> NoExc, value |-> 0]

(* one invocation of the operation: its exception (NoExc when it returned)  *)
(* and the value it returned                                                *)
Call(k, p, a, r) ==
    [ev |-> "call", kind |-> k, pair |-> p, attempt |-> a,
     err |-> IF r.ok THEN NoExc ELSE r.err,
     value |-> IF r.ok THEN r.value ELSE 0]

Progress(frac) ==
    [ev |-> "progress", kind |-> "none", pair |-> 0, attempt |-> 0, err |-> NoExc,
     value |-> frac]

Faults == Cardinality({n \in DOMAIN trace : trace[n].ev = "call" /\ trace[n].err # NoExc})

(* ---- Init --------------------------------------------------------------- *)
Init ==
    /\ pc = "idle"
    /\ now = StartTime
    /\ last_request_time = 0
    /\ attempt = 0
    /\ kind = "none"
    /\ i = 0
    /\ story_prompts = 0
    /\ image_url = 0
    /\ retval = NoValue
    /\ exc = NoExc
    /\ results = << >>
    /\ delays = << >>
    /\ slept = FALSE
    /\ trace = << >>

(* entry of safe_api_call(make_request) for operation k: range() starts at 0 *)
EnterCall(k) ==
    /\ kind' = k
    /\ attempt' = 0
    /\ delays' = << >>
    /\ pc' = "wait"

(* lines 20-27: RateLimitHandler.wait *)
wait(J, O) ==
    /\ pc = "wait"
    /\ \E jitter \in J, over \in O :
         LET current_time == now
             elapsed == current_time - last_request_time
             woke == IF MustSleep(elapsed)
                     THEN current_time + PacerSleep(elapsed, jitter) + over
                     ELSE current_time
         IN /\ now' = woke
            /\ last_request_time' = Stamp(current_time, woke)
            /\ slept' = MustSleep(elapsed)
            /\ trace' = Append(trace, Event("wait", kind, i, attempt))
    /\ pc' = "invoke"
    /\ UNCHANGED <<attempt, kind, i, story_prompts, image_url, retval, exc, results, delays>>

(* lines 51-56: the call of func and the classification of the except clause *)
make_request(D, N, F) ==
    /\ pc = "invoke"
    /\ \E d \in D, r \in Outcomes(kind, N) :
         /\ ~r.ok => Faults < F
         /\ now' = now + d
         /\ trace' = Append(trace, Call(kind, i, attempt, r))
         /\ retval' = IF r.ok THEN r ELSE retval
         /\ exc' = r.err
         /\ pc' = AfterAttempt(r, attempt)
    /\ UNCHANGED <<last_request_time, attempt, kind, i, story_prompts, image_url, results, delays, slept>>

(* lines 29-37 and 55-57: handle_rate_limit, then continue *)
handle_rate_limit(J, O) ==
    /\ pc = "backoff"
    /\ IF attempt >= max_retries
       THEN /\ exc' = MaxRetriesExceeded
            /\ pc' = "raised"
            /\ UNCHANGED <<now, attempt, delays, trace>>
       ELSE \E jitter \in J, over \in O :
              LET delay == BackoffDelay(attempt, jitter)
              IN /\ trace' = Append(Append(trace, Event("warning", kind, i, attempt)),
                                    Event("sleep", kind, i, attempt))
                 /\ delays' = Append(delays, delay)
                 /\ now' = now + delay + over
                 /\ IF NextAttempt(attempt) < max_retries
                    THEN /\ attempt' = NextAttempt(attempt)
                         /\ pc' = RetryTarget
                         /\ exc' = NoExc
                    ELSE /\ attempt' = attempt
                         /\ pc' = "raised"
                         /\ exc' = MaxRetriesExceeded
    /\ UNCHANGED <<last_request_time, kind, i, story_prompts, image_url, retval, results, slept>>

(* ---- create_multi_story_app -------------------------------------------- *)
(* line 114: progress_value of pair j, in tenths *)
ProgressValue(j) == 1 + (j - 1) * 3

(* the loop of line 111 stopping one entry early *)
IterateSkipsLast(j, n, tr) ==
    IF j < n
    THEN /\ i' = j
         /\ trace' = Append(tr, Progress(ProgressValue(j)))
         /\ EnterCall("image")
    ELSE /\ i' = i
         /\ trace' = Append(tr, Progress(10))
         /\ pc' = "done"
         /\ UNCHANGED <<kind, attempt, delays>>

(* line 111: iteration j of the loop over the n entries, or lines 127-128   *)
(* when the entries are used up; tr is the trace up to here                 *)
Iterate(j, n, tr) ==
    IF j <= n
    THEN /\ i' = j
         /\ trace' = Append(tr, Progress(ProgressValue(j)))
         /\ EnterCall("image")
    ELSE /\ i' = i
         /\ trace' = Append(tr, Progress(10))
         /\ pc' = "done"
         /\ UNCHANGED <<kind, attempt, delays>>

(* lines 107-108: the run starts with the prompt-generation call *)
create_multi_story_app ==
    /\ pc = "idle"
    /\ trace' = Append(trace, Progress(1))
    /\ EnterCall("prompt")
    /\ UNCHANGED <<now, last_request_time, i, story_prompts, image_url, retval, exc, results, slept>>

(* lines 108-111: generate_story_prompts returned; .items() of a value that *)
(* is no mapping raises into the outer except (lines 130-132)               *)
prompts_returned ==
    /\ pc = "returned"
    /\ kind = "prompt"
    /\ IF retval.mapping
       THEN /\ story_prompts' = retval.value
            /\ results' = << >>
            /\ exc' = exc
            /\ Iterate(1, retval.value, trace)
       ELSE /\ story_prompts' = story_prompts
            /\ results' = << >>
            /\ exc' = AttributeError
            /\ trace' = Append(trace, Event("error_run", kind, 0, attempt))
            /\ pc' = "done"
            /\ UNCHANGED <<kind, attempt, delays, i>>
    /\ UNCHANGED <<now, last_request_time, image_url, retval, slept>>

(* lines 130-132 without the st.error of line 131 *)
run_failed_silent ==
    /\ pc = "raised"
    /\ kind = "prompt"
    /\ results' = << >>
    /\ pc' = "done"
    /\ UNCHANGED <<now, last_request_time, attempt, kind, i, story_prompts,
                   image_url, retval, exc, delays, slept, trace>>

(* lines 130-132: generate_story_prompts raised *)
run_failed ==
    /\ pc = "raised"
    /\ kind = "prompt"
    /\ trace' = Append(trace, Event("error_run", kind, 0, attempt))
    /\ results' = << >>
    /\ pc' = "done"
    /\ UNCHANGED <<now, last_request_time, attempt, kind, i, story_prompts,
                   image_url, retval, exc, delays, slept>>

(* lines 116-119: generate_image returned *)
image_returned ==
    /\ pc = "returned"
    /\ kind = "image"
    /\ image_url' = retval.value
    /\ trace' = Append(trace, Progress(ProgressValue(i) + 1))
    /\ EnterCall("story")
    /\ UNCHANGED <<now, last_request_time, i, story_prompts, retval, exc, results, slept>>

(* lines 119-121 and the next iteration: generate_story returned *)
story_returned ==
    /\ pc = "returned"
    /\ kind = "story"
    /\ results' = Append(results, [image_url |-> image_url, story_line |-> i,
                                   story |-> retval.value])
    /\ Iterate(i + 1, story_prompts, trace)
    /\ UNCHANGED <<now, last_request_time, story_prompts, image_url, retval, exc, slept>>

(* lines 123-125 without the st.error of line 124 *)
pair_failed_silent ==
    /\ pc = "raised"
    /\ kind \in {"image", "story"}
    /\ Iterate(i + 1, story_prompts, trace)
    /\ UNCHANGED <<now, last_request_time, story_prompts, image_url, retval, exc, results, slept>>

(* lines 123-125 with break in place of continue *)
pair_failed_breaks ==
    /\ pc = "raised"
    /\ kind \in {"image", "story"}
    /\ Iterate(story_prompts + 1, story_prompts,
               Append(trace, Event("error_story", kind, i, attempt)))
    /\ UNCHANGED <<now, last_request_time, story_prompts, image_url, retval, exc, results, slept>>

(* lines 123-125 where a failed image call does not end the iteration: the  *)
(* story call of the same pair follows                                      *)
pair_failed_falls_through ==
    /\ pc = "raised"
    /\ kind \in {"image", "story"}
    /\ IF kind = "image"
       THEN /\ i' = i
            /\ trace' = Append(trace, Event("error_story", kind, i, attempt))
            /\ EnterCall("story")
       ELSE Iterate(i + 1, story_prompts,
                    Append(trace, Event("error_story", kind, i, attempt)))
    /\ UNCHANGED <<now, last_request_time, story_prompts, image_url, retval, exc, results, slept>>

(* lines 123-125: generate_image or generate_story raised *)
pair_failed ==
    /\ pc = "raised"
    /\ kind \in {"image", "story"}
    /\ Iterate(i + 1, story_prompts,
               Append(trace, Event("error_story", kind, i, attempt)))
    /\ UNCHANGED <<now, last_request_time, story_prompts, image_url, retval, exc, results, slept>>

(* Spec follows every run of up to MaxPairs pairs and MaxFaults failing     *)
(* attempts under one timing: remote calls that take no time, sleeps that   *)
(* end on time, the least jitter.                                           *)
Next ==
    \/ create_multi_story_app
    \/ wait({WaitJitterMin}, {0})
    \/ make_request({0}, MaxPairs, MaxFaults)
    \/ handle_rate_limit({BackoffJitterMin}, {0})
    \/ prompts_returned
    \/ run_failed
    \/ image_returned
    \/ story_returned
    \/ pair_failed

Spec == Init /\ [][Next]_vars

(* SpecTimed follows every timing of the runs of up to TimedPairs pairs and *)
(* TimedFaults failing attempts.                                            *)
NextTimed ==
    \/ create_multi_story_app
    \/ wait(WaitJitters, Oversleeps)
    \/ make_request(OpTimes, TimedPairs, TimedFaults)
    \/ handle_rate_limit(BackoffJitters, Oversleeps)
    \/ prompts_returned
    \/ run_failed
    \/ image_returned
    \/ story_returned
    \/ pair_failed

SpecTimed == Init /\ [][NextTimed]_vars

(* SpecLive is Spec with the one thread of control never stopping while it  *)
(* has a step to take: every remote call returns or raises and every sleep  *)
(* ends.                                                                    *)
SpecLive == Init /\ [][Next]_vars /\ WF_vars(Next)

(* ======================================================================= *)
(* Properties                                                              *)
(* ======================================================================= *)
RetryEvents == {"wait", "call", "warning", "sleep"}

(* the places in the trace of the events e of the safe_api_call of          *)
(* operation k for pair p (p = 0 for the prompt call)                       *)
EventsOf(e, k, p) ==
    {n \in DOMAIN trace : trace[n].ev = e /\ trace[n].kind = k /\ trace[n].pair = p}

CallsOf(k, p) == EventsOf("call", k, p)

AllThrottled(k, p) == \A n \in CallsOf(k, p) : trace[n].err.has429

(* nothing of the retry loop of the same safe_api_call follows place n *)
EndsCall(n) ==
    \A m \in DOMAIN trace :
        (m > n /\ trace[m].kind = trace[n].kind /\ trace[m].pair = trace[n].pair)
            => trace[m].ev \notin RetryEvents

(* C1: every value wait() assigns to last_request_time lies at least        *)
(* min_delay after the value it replaces, whatever operation, attempt,      *)
(* jitter, call duration and oversleep precede it.                          *)
C1_PacerSpacing ==
    [][pc = "wait" => last_request_time' - last_request_time >= min_delay]_vars

(* a second admission, made after the pacer suspended the caller *)
C1_Witness ==
    /\ pc = "invoke"
    /\ slept
    /\ last_request_time = now
    /\ Cardinality({n \in DOMAIN trace : trace[n].ev = "wait"}) >= 2

(* C2 as stated: an operation throttled on every attempt is invoked         *)
(* max_retries times and safe_api_call then fails with "Max retries         *)
(* exceeded".                                                               *)
C2_Original ==
    (pc = "raised" /\ AllThrottled(kind, i))
        => /\ Cardinality(CallsOf(kind, i)) = max_retries
           /\ exc = MaxRetriesExceeded

(* C2 amended: an operation throttled on every attempt is invoked exactly   *)
(* max_retries times, with max_retries - 1 warnings, and safe_api_call then  *)
(* fails with the throttling error of the last attempt itself.              *)
C2_ExhaustedPropagatesThrottle ==
    (pc = "raised" /\ AllThrottled(kind, i))
        => /\ Cardinality(CallsOf(kind, i)) = max_retries
           /\ Cardinality(EventsOf("warning", kind, i)) = max_retries - 1
           /\ trace[Len(trace)].ev = "call"
           /\ trace[Len(trace)].attempt = max_retries - 1
           /\ exc = trace[Len(trace)].err
           /\ exc.has429
           /\ exc # MaxRetriesExceeded

(* the story call of a pair has just failed after throttling every time *)
C2_Witness ==
    /\ pc = "raised"
    /\ kind = "story"
    /\ AllThrottled(kind, i)
    /\ Cardinality(CallsOf(kind, i)) = max_retries

(* C3: a success on attempt k, after throttling on attempts 0..k-1, is      *)
(* returned as the result; the operation was invoked k+1 times and warned   *)
(* and backed off k times, and no attempt, backoff or warning of that       *)
(* safe_api_call follows the success.                                       *)
C3_SuccessEndsCall ==
    \A n \in DOMAIN trace :
        (trace[n].ev = "call" /\ trace[n].err = NoExc)
            => LET k == trace[n].kind
                   p == trace[n].pair
                   a == trace[n].attempt
               IN /\ Cardinality(CallsOf(k, p)) = a + 1
                  /\ \A m \in CallsOf(k, p) : m < n => trace[m].err.has429
                  /\ Cardinality(EventsOf("warning", k, p)) = a
                  /\ Cardinality(EventsOf("sleep", k, p)) = a
                  /\ EndsCall(n)
                  /\ n = Len(trace) => /\ pc = "returned"
                                       /\ retval.ok
                                       /\ retval.value = trace[n].value

(* an image call has just succeeded on its last attempt *)
C3_Witness ==
    /\ pc = "returned"
    /\ kind = "image"
    /\ attempt = max_retries - 1
    /\ trace[Len(trace)].ev = "call"
    /\ trace[Len(trace)].err = NoExc

(* C4: an error without the 429 indicator is propagated as it is, at once:  *)
(* no attempt, pacer wait, backoff or warning of that safe_api_call follows *)
(* it.                                                                      *)
C4_NonThrottlingPropagates ==
    \A n \in DOMAIN trace :
        (trace[n].ev = "call" /\ trace[n].err # NoExc /\ ~trace[n].err.has429)
            => /\ EndsCall(n)
               /\ n = Len(trace) => (pc = "raised" /\ exc = trace[n].err)

(* a run is over in which a first attempt failed without the indicator *)
C4_Witness ==
    /\ pc = "done"
    /\ \E n \in DOMAIN trace :
          /\ trace[n].ev = "call"
          /\ trace[n].err = RemoteError
          /\ trace[n].attempt = 0
          /\ trace[n].kind = "image"

(* C5: the delay of the retry after attempt a is min(base_delay * 2^a,      *)
(* max_delay) plus a jitter of 0.1 to 2.0 seconds: 5 s plus jitter after    *)
(* attempt 0, 10 s plus jitter after attempt 1.                             *)
C5_BackoffDelay ==
    \A n \in 1..Len(delays) :
        LET a == n - 1
            jitter == delays[n] - Min2(base_delay * Pow2(a), max_delay)
        IN /\ jitter >= 1
           /\ jitter <= 20
           /\ a = 0 => delays[n] \in 51..70
           /\ a = 1 => delays[n] \in 101..120

(* two retries of one call, the first with the largest jitter and the       *)
(* second with the least                                                    *)
C5_Witness ==
    /\ Len(delays) = 2
    /\ delays[1] = 70
    /\ delays[2] = 101

(* C6: every invocation of a remote operation, first attempt or retry, of   *)
(* any of the three kinds, comes right after a wait() made for that very    *)
(* attempt, and every wait() is followed by the invocation it was made for. *)
C6_WaitPrecedesCall ==
    /\ \A n \in DOMAIN trace :
          trace[n].ev = "call"
              => /\ n > 1
                 /\ trace[n - 1].ev = "wait"
                 /\ trace[n - 1].kind = trace[n].kind
                 /\ trace[n - 1].pair = trace[n].pair
                 /\ trace[n - 1].attempt = trace[n].attempt
    /\ \A n \in DOMAIN trace :
          (trace[n].ev = "wait" /\ n < Len(trace)) => trace[n + 1].ev = "call"
    /\ pc = "invoke" => /\ trace # << >>
                        /\ trace[Len(trace)] = Event("wait", kind, i, attempt)

(* the story call of a pair has been retried *)
C6_Witness ==
    \E n \in DOMAIN trace :
        /\ trace[n].ev = "call"
        /\ trace[n].kind = "story"
        /\ trace[n].attempt = 1
        /\ trace[n - 1].ev = "wait"

ImageOrStoryCalls ==
    {n \in DOMAIN trace : trace[n].ev = "call" /\ trace[n].kind \in {"image", "story"}}

PromptSucceeded == \E n \in CallsOf("prompt", 0) : trace[n].err = NoExc

RunErrors == {n \in DOMAIN trace : trace[n].ev = "error_run"}

(* C7: while the prompt-generation call has not succeeded no image or story *)
(* call is issued, and a run whose prompt-generation call failed ends with  *)
(* one error reported and an empty result list.                             *)
C7_PromptFailureAborts ==
    /\ ~PromptSucceeded => ImageOrStoryCalls = {}
    /\ (pc = "done" /\ ~PromptSucceeded)
          => /\ results = << >>
             /\ Cardinality(RunErrors) = 1
             /\ trace[Len(trace)].ev = "error_run"

(* the prompt call was throttled max_retries times and the run is over *)
C7_Witness ==
    /\ pc = "done"
    /\ Cardinality(CallsOf("prompt", 0)) = max_retries
    /\ ~PromptSucceeded
    /\ exc = ThrottlingError

PairOk(p) == \E n \in CallsOf("story", p) : trace[n].err = NoExc

PairErrors(p) == EventsOf("error_story", "image", p) \cup EventsOf("error_story", "story", p)

Tuple(p) == [image_url |-> p, story_line |-> p, story |-> p]

RECURSIVE Tuples(_, _)
Tuples(p, n) ==
    IF p > n THEN << >>
    ELSE (IF PairOk(p) THEN <<Tuple(p)>> ELSE << >>) \o Tuples(p + 1, n)

(* C8: in a finished run whose prompt call returned a mapping, a pair whose *)
(* image or story call failed has one error reported against its index and  *)
(* no tuple, every pair was processed, the run completed, and the result is *)
(* the tuples of the pairs that succeeded, in the order of the pairs.        *)
C8_PairFailureSkipsPair ==
    (pc = "done" /\ RunErrors = {})
        => /\ results = Tuples(1, story_prompts)
           /\ \A p \in 1..story_prompts :
                 /\ CallsOf("image", p) # {}
                 /\ Cardinality(PairErrors(p)) = (IF PairOk(p) THEN 0 ELSE 1)
           /\ trace[Len(trace)] = Progress(10)

(* pair 2 of 3 lost its image call to throttling; pairs 1 and 3 are returned *)
C8_Witness ==
    /\ pc = "done"
    /\ story_prompts = 3
    /\ Cardinality(CallsOf("image", 2)) = max_retries
    /\ AllThrottled("image", 2)
    /\ results = <<Tuple(1), Tuple(3)>>

IsCall(e) == e.ev = "call"

(* the remote calls of the run, in the order they were issued *)
CallSeq == SelectSeq(trace, IsCall)

(* operation and pair of the k-th call of a run without failures *)
ExpectedCall(k) ==
    IF k = 1 THEN <<"prompt", 0>>
    ELSE IF k % 2 = 0 THEN <<"image", k \div 2>>
    ELSE <<"story", k \div 2>>

(* C9: a finished run without a failing call over N pairs issued 1 + 2N     *)
(* remote calls: the prompt call, then for each pair in order its image     *)
(* call and its story call; the result holds the N tuples in that order.    *)
C9_CallSequence ==
    (pc = "done" /\ Faults = 0 /\ RunErrors = {})
        => /\ Len(CallSeq) = 1 + 2 * story_prompts
           /\ \A k \in DOMAIN CallSeq :
                 <<CallSeq[k].kind, CallSeq[k].pair>> = ExpectedCall(k)
           /\ Len(results) = story_prompts
           /\ \A p \in DOMAIN results : results[p] = Tuple(p)

(* a run over two pairs without a failure: five calls, two tuples *)
C9_Witness ==
    /\ pc = "done"
    /\ Faults = 0
    /\ story_prompts = 2
    /\ Len(CallSeq) = 5
    /\ Len(results) = 2

Warnings == {n \in DOMAIN trace : trace[n].ev = "warning"}

PromptOnThirdAttempt ==
    \E n \in CallsOf("prompt", 0) : trace[n].err = NoExc /\ trace[n].attempt = 2

(* C10: when the prompt call succeeds on its third attempt exactly two      *)
(* warnings were emitted, the second with the greater delay for every       *)
(* jitter; the run goes on and, no other call failing, issues the image and *)
(* story call of every pair and returns a tuple for each.                   *)
C10_TwoWarningsThenNormal ==
    /\ (pc = "returned" /\ kind = "prompt" /\ attempt = 2)
          => /\ Cardinality(Warnings) = 2
             /\ Len(delays) = 2
             /\ delays[2] > delays[1]
    /\ (pc = "done" /\ PromptOnThirdAttempt /\ Faults = 2 /\ RunErrors = {})
          => /\ Cardinality(Warnings) = 2
             /\ Len(CallSeq) = 3 + 2 * story_prompts
             /\ \A k \in 4..Len(CallSeq) :
                   <<CallSeq[k].kind, CallSeq[k].pair>> = ExpectedCall(k - 2)
             /\ Len(results) = story_prompts
             /\ \A p \in DOMAIN results : results[p] = Tuple(p)

(* the prompt call has just succeeded on its third attempt, after the       *)
(* largest first delay and the least second delay                           *)
C10_Witness ==
    /\ pc = "returned"
    /\ kind = "prompt"
    /\ attempt = 2
    /\ delays = <<70, 101>>

(* the run of C10 finished with its one pair *)
C10_RunContinued ==
    /\ pc = "done"
    /\ PromptOnThirdAttempt
    /\ Faults = 2
    /\ Len(results) = 1

(* C11 as stated: a malformed-response failure (json.loads raising) is      *)
(* never retried, whatever the text of the parse error: nothing of the      *)
(* retry loop follows it and safe_api_call raises at once.                  *)
C11_Original ==
    \A n \in DOMAIN trace :
        (trace[n].ev = "call" /\ trace[n].err.type = "MalformedResponseError")
            => /\ EndsCall(n)
               /\ n = Len(trace) => pc = "raised"

(* C12 as stated: every progress update carries a fraction of 0.0 to 1.0,   *)
(* for every number of entries of the parsed mapping.                       *)
C12_Original ==
    \A n \in DOMAIN trace : trace[n].ev = "progress" => trace[n].value \in 0..10

(* the st.error that reports the failure of the call event c *)
ErrorFor(c) ==
    IF c.kind = "prompt"
    THEN Event("error_run", c.kind, 0, c.attempt)
    ELSE Event("error_story", c.kind, c.pair, c.attempt)

(* C13: the failure that ends a safe_api_call is followed at once by the    *)
(* st.error of the orchestrator, so no run returns with a failure left      *)
(* unreported; a throttling failure that is retried is followed at once by  *)
(* the warning of handle_rate_limit.                                        *)
C13_FailuresSurfaced ==
    \A n \in DOMAIN trace :
        (trace[n].ev = "call" /\ trace[n].err # NoExc)
            => IF trace[n].err.has429 /\ trace[n].attempt < max_retries - 1
               THEN /\ n = Len(trace) => pc = "backoff"
                    /\ n < Len(trace)
                          => trace[n + 1] = Event("warning", trace[n].kind,
                                                  trace[n].pair, trace[n].attempt)
               ELSE /\ n = Len(trace) => pc = "raised"
                    /\ n < Len(trace) => trace[n + 1] = ErrorFor(trace[n])

(* a finished run in which a story call was throttled, warned about,        *)
(* retried, and then failed for good and was reported                       *)
C13_Witness ==
    /\ pc = "done"
    /\ \E n \in DOMAIN trace :
          /\ trace[n].ev = "call"
          /\ trace[n].kind = "story"
          /\ trace[n].attempt = 1
          /\ trace[n].err = RemoteError
          /\ trace[n + 1].ev = "error_story"
          /\ EventsOf("warning", "story", trace[n].pair) # {}

(* C14: a throttling failure on the last attempt (max_retries - 1) is        *)
(* raised by safe_api_call as it is, at once: no warning, backoff wait,     *)
(* pacer wait or attempt of that safe_api_call follows it.                  *)
C14_LastThrottlePropagates ==
    \A n \in DOMAIN trace :
        (/\ trace[n].ev = "call"
         /\ trace[n].err.has429
         /\ trace[n].attempt = max_retries - 1)
            => /\ EndsCall(n)
               /\ n = Len(trace) => (pc = "raised" /\ exc = trace[n].err)
               /\ n < Len(trace) => trace[n + 1].ev \in {"error_run", "error_story"}

(* the prompt call has just been throttled on its last attempt *)
C14_Witness ==
    /\ pc = "raised"
    /\ kind = "prompt"
    /\ attempt = max_retries - 1
    /\ exc = ThrottlingError
    /\ trace[Len(trace)].ev = "call"

InCall == pc \in {"wait", "invoke", "backoff"}

CallEnded == pc \in {"returned", "raised"}

(* a call event that ends its safe_api_call: a success, or a failure that   *)
(* is not retried                                                           *)
IsTerminal(c) ==
    /\ c.ev = "call"
    /\ \/ c.err = NoExc
       \/ ~c.err.has429
       \/ c.attempt = max_retries - 1

TerminalsOf(k, p) == {n \in CallsOf(k, p) : IsTerminal(trace[n])}

(* the counts and the order of the steps of every safe_api_call of the run *)
C15_Bounded ==
    /\ attempt \in 0..(max_retries - 1)
    /\ \A n \in DOMAIN trace :
          LET k == trace[n].kind
              p == trace[n].pair
              a == trace[n].attempt
          IN /\ trace[n].ev = "call"
                   => /\ Cardinality(CallsOf(k, p)) <= max_retries
                      /\ Cardinality(EventsOf("sleep", k, p)) <= max_retries - 1
                      /\ Cardinality(TerminalsOf(k, p)) <= 1
                      /\ a = Cardinality({m \in CallsOf(k, p) : m < n})
             /\ trace[n].ev = "sleep"
                   => /\ n < Len(trace) => trace[n + 1] = Event("wait", k, p, a + 1)
                      /\ n = Len(trace) => (pc = "wait" /\ attempt = a + 1)
             /\ (trace[n].ev = "wait" /\ trace[n - 1].ev = "progress") => a = 0
    /\ CallEnded => /\ Cardinality(TerminalsOf(kind, i)) = 1
                    /\ IsTerminal(trace[Len(trace)])
                    /\ pc = "returned" <=> trace[Len(trace)].err = NoExc

(* C15: every safe_api_call ends, returning or raising, after at most       *)
(* max_retries invocations and max_retries - 1 backoff waits; a backoff      *)
(* after attempt n is followed by the pacer wait of attempt n + 1, and each *)
(* safe_api_call starts with attempt 0.                                     *)
C15_CallTerminates ==
    /\ []C15_Bounded
    /\ InCall ~> CallEnded

(* a safe_api_call that is not the first of the run has used every attempt  *)
(* and raised                                                               *)
C15_Witness ==
    /\ pc = "raised"
    /\ kind = "story"
    /\ i = 2
    /\ attempt = max_retries - 1
    /\ Cardinality(CallsOf(kind, i)) = max_retries
    /\ Cardinality(EventsOf("sleep", kind, i)) = max_retries - 1

(* C16: no step makes last_request_time smaller; only wait() changes it,    *)
(* and wait() sets it, on every admission, to the time at which it admits   *)
(* the call; the remote operation, failing or not, handle_rate_limit and   *)
(* the orchestrator leave it as it is.                                      *)
C16_StampMonotone ==
    [][/\ now' >= now
       /\ last_request_time' >= last_request_time
       /\ last_request_time' # last_request_time => pc = "wait"
       /\ pc = "wait" => (last_request_time' = now' /\ pc' = "invoke")
       /\ pc = "invoke" => last_request_time' = last_request_time]_vars

(* an image call has failed for good after a pacer wait that slept: the     *)
(* stamp of that admission stays                                            *)
C16_Witness ==
    /\ pc = "raised"
    /\ kind = "image"
    /\ slept
    /\ exc = RemoteError
    /\ last_request_time = now
    /\ last_request_time >= StartTime + min_delay

(* the image calls that failed for good: not retried by safe_api_call *)
FailedImageCalls ==
    {n \in DOMAIN trace : /\ trace[n].ev = "call"
                          /\ trace[n].kind = "image"
                          /\ trace[n].err # NoExc
                          /\ IsTerminal(trace[n])}

(* the remote calls issued after position n of the trace *)
CallsAfter(n) == {m \in DOMAIN trace : m > n /\ trace[m].ev = "call"}

ImageOk(p) == \E n \in CallsOf("image", p) : trace[n].err = NoExc

(* C17: when the image call of pair p has failed for good, no story call of *)
(* pair p is ever issued and the next remote call of the run, if there is   *)
(* one, is the first attempt of the image call of pair p+1; every tuple of  *)
(* the result holds the image reference and the story text of one pair,     *)
(* both returned by calls of that pair.                                     *)
C17_ImageFailureSkipsStory ==
    /\ \A n \in FailedImageCalls :
          /\ CallsOf("story", trace[n].pair) = {}
          /\ \A m \in CallsAfter(n) :
                (\A l \in CallsAfter(n) : m <= l)
                    => /\ trace[m].kind = "image"
                       /\ trace[m].pair = trace[n].pair + 1
                       /\ trace[m].attempt = 0
    /\ \A k \in DOMAIN results :
          /\ results[k].image_url = results[k].story_line
          /\ results[k].story = results[k].story_line
          /\ ImageOk(results[k].story_line)
          /\ PairOk(results[k].story_line)

(* the image call of pair 2 of 3 failed on its first attempt with an error  *)
(* that is not retried; the image call of pair 3 came next and the run      *)
(* returned pairs 1 and 3                                                   *)
C17_Witness ==
    /\ pc = "done"
    /\ story_prompts = 3
    /\ \E n \in FailedImageCalls :
          /\ trace[n].pair = 2
          /\ trace[n].attempt = 0
          /\ trace[n].err = RemoteError
          /\ CallsAfter(n) # {}
    /\ CallsOf("story", 2) = {}
    /\ results = <<Tuple(1), Tuple(3)>>

(* C18: on a retry attempt of safe_api_call the wait() before the re-issued *)
(* call finds more than min_delay elapsed since the previous admission and  *)
(* does not sleep; a call admitted after a pacer sleep is a first attempt.  *)
C18_RetryNeverPaced ==
    /\ (pc = "wait" /\ attempt > 0) => ~MustSleep(now - last_request_time)
    /\ (pc = "invoke" /\ attempt > 0) => (~slept /\ last_request_time = now)
    /\ (pc = "invoke" /\ slept) => attempt = 0

(* the last attempt of an image call was admitted without a pacer sleep *)
C18_Witness ==
    /\ pc = "invoke"
    /\ kind = "image"
    /\ attempt = max_retries - 1
    /\ ~slept
    /\ Cardinality(EventsOf("sleep", "image", i)) = max_retries - 1

(* C19: handle_rate_limit is entered, and has been entered, only with an    *)
(* attempt in 0..max_retries-2, so its guard attempt >= max_retries is      *)
(* false at every entry and its exception is never raised.                  *)
C19_GuardNeverRaises ==
    /\ pc = "backoff" => (attempt \in 0..(max_retries - 2) /\ ~(attempt >= max_retries))
    /\ \A n \in DOMAIN trace :
          trace[n].ev = "warning" => trace[n].attempt \in 0..(max_retries - 2)
    /\ exc # MaxRetriesExceeded

(* handle_rate_limit is about to run for the last attempt that is retried,  *)
(* having run once for the attempt before                                   *)
C19_Witness ==
    /\ pc = "backoff"
    /\ attempt = max_retries - 2
    /\ exc = ThrottlingError
    /\ Cardinality(EventsOf("warning", kind, i)) = max_retries - 2

====
